---- MODULE Spec2Model ----
(***************************************************************************)
(* A model of di's solver (di/container/_solving.py: solve, get_params,    *)
(* build_tasks) and of the execution of a solved plan against a stack of   *)
(* scope caches, as exercised by tests/test_caching_rules.py.              *)
(*                                                                         *)
(* Node objects (DependantBase instances) are the integers 1..Len(nodes);  *)
(* nodes[n] holds the attributes the solver reads: call (0 is None),       *)
(* use_cache and scope.  The dependency list of a node is what             *)
(* dep.get_dependencies() returns when the node is expanded: it is an      *)
(* input of the traversal, drawn when the node is expanded, and new node   *)
(* objects are numbered in the order in which they are first met.          *)
(***************************************************************************)
EXTENDS Integers, Sequences, FiniteSets, TLC

VARIABLES
    fam,          \* the family the inputs of this run are drawn from
    nodes,        \* node objects: Seq of [call, use_cache, scope]
    binds,        \* the bind hooks, in registration order
    declared,     \* node -> the list get_dependencies() returned for it
    pc,           \* position in solve / the container
    dependency,   \* solve's `dependency` (the root, after bind substitution)
    dependants,   \* cache key -> first node expanded under it
    param_graph,  \* Seq of [dep, params], in dict insertion order
    parents,      \* node -> the node it was last seen as a parameter of
    q,            \* the worklist (a stack)
    seen,         \* nodes popped so far
    err,          \* "" or the kind of the exception solve raised
    errDep,       \* the node handed to get_path by a Wiring/Solving error
    errParam,     \* the index of the parameter a Wiring error names
    errKey,       \* the cache key handed to get_path by a cycle error
    dep_topsort,  \* cache keys in static order
    tasks,        \* Seq of Task records, in creation order (task_id + 1)
    ts,           \* the add() calls made on the Task TopologicalSorter
    static_order, \* task ids, in the order ts.copy().static_order() gave
    stack,        \* the open scope instances, outermost first, with caches
    entered,      \* scope instances entered so far
    gen,          \* the test's value_gen: the next value dep() returns
    ex,           \* the execution under way: position, results buffer
    runs,         \* the executions finished so far, with what they did
    cx            \* the concurrent executions under way

solveVars == <<fam, nodes, binds, declared, pc, dependency, dependants,
               param_graph, parents, q, seen, err, errDep, errParam,
               errKey, dep_topsort, tasks, ts, static_order>>

execVars == <<stack, entered, gen, ex, runs, cx>>

vars == <<solveVars, execVars>>

---------------------------------------------------------------------------
(* Bounds of the input families. *)

\* node objects in one declared graph
MaxNodes == 3
\* parameters of one call
MaxDeps == 2
\* registered bind hooks
MaxHooks == 2
\* scope instances entered in one run of the container
MaxEnters == 3
\* executions of the solved plan
MaxRuns == 2
\* concurrent executions under way at once
MaxConc == 2

---------------------------------------------------------------------------
(* Collaborators' data, as the solver reads them. *)

\* Container(scopes=("scope", None)): outermost first
Scopes == <<"scope", "None">>

ScopeNames == {Scopes[i] : i \in 1..Len(Scopes)}

NoCall == 0

Calls == {1, 2, 3}

\* inspect.Parameter as get_params and build_tasks read it: None, or its
\* kind (positional / KEYWORD_ONLY) and whether it has a default
ParamKinds == {"none", "pos", "posdef", "kw", "kwdef"}

HasParameter(p) == p.parameter # "none"

HasDefault(p) == p.parameter \in {"posdef", "kwdef"}

IsKeywordOnly(p) == p.parameter \in {"kw", "kwdef"}

\* DependantBase.cache_key: the call when the node takes part in caching,
\* the node object itself otherwise
cache_key(n) ==
    IF nodes[n].use_cache /\ nodes[n].call # NoCall
    THEN <<"call", nodes[n].call>>
    ELSE <<"id", n>>

\* A bind hook: replaces a dependency whose call is `match` by `provider`
Hook(nd, h, parameter, d) ==
    IF nd[d].call = h.match THEN h.provider ELSE 0

---------------------------------------------------------------------------
(* Small helpers. *)

Last(s) == s[Len(s)]

Front(s) == SubSeq(s, 1, Len(s) - 1)

Range(s) == {s[i] : i \in 1..Len(s)}

Put(f, k, v) == [x \in DOMAIN f \cup {k} |-> IF x = k THEN v ELSE f[x]]

Min(S) == CHOOSE x \in S : \A y \in S : x <= y

\* the ends of the edges of E
Ends(E) == {e[1] : e \in E} \cup {e[2] : e \in E}

\* one more step along E from the pairs of R
Compose(R, E) ==
    R \cup {<<z[1][1], z[2][2]>> : z \in {y \in R \X E : y[1][2] = y[2][1]}}

RECURSIVE ClosureIter(_, _, _)
ClosureIter(R, E, k) ==
    IF k = 0 THEN R
    ELSE LET S == Compose(R, E)
         IN IF S = R THEN R ELSE ClosureIter(S, E, k - 1)

\* the pairs joined by a path of at least one edge of E
Closure(E) == ClosureIter(E, E, Cardinality(E))

\* the members of the cycles of E
OnCycle(E) == {a \in Ends(E) : <<a, a>> \in Closure(E)}

---------------------------------------------------------------------------
(* solve, lines 27-31: the root is replaced by each hook that matches *)

RECURSIVE bind_root(_, _)
bind_root(d, i) ==
    IF i > Len(binds) THEN d
    ELSE LET match == Hook(nodes, binds[i], "none", d)
         IN bind_root(IF match # 0 THEN match ELSE d, i + 1)

\* get_params, lines 46-49 with a break after the first hook that matches
bind_param_first(nd, param, i) ==
    LET M == {k \in i..Len(binds) :
                 Hook(nd, binds[k], param.parameter, param.dependency) # 0}
    IN IF M = {} THEN param
       ELSE [param EXCEPT !.dependency =
                Hook(nd, binds[Min(M)], param.parameter, param.dependency)]

RECURSIVE bind_param(_, _, _)
\* get_params, lines 46-49: every hook sees the parameter as the hooks
\* before it left it
bind_param(nd, param, i) ==
    IF i > Len(binds) THEN param
    ELSE LET match == Hook(nd, binds[i], param.parameter, param.dependency)
         IN bind_param(nd,
                       IF match # 0
                       THEN [param EXCEPT !.dependency = match]
                       ELSE param, i + 1)

\* get_params, lines 44-50 with the hooks run a second time over what
\* they returned
bound_params_twice(nd, decl) ==
    [i \in 1..Len(decl) |-> bind_param(nd, bind_param(nd, decl[i], 1), 1)]

\* get_params, lines 44-50: the parameters with binds swapped in
bound_params(nd, decl) ==
    [i \in 1..Len(decl) |-> bind_param(nd, decl[i], 1)]

\* get_params, lines 51-55 without the test of the default
unwired_no_default(nd, param) ==
    /\ HasParameter(param)
    /\ nd[param.dependency].call = NoCall

\* get_params, lines 51-55: the parameter that raises WiringError
unwired(nd, param) ==
    /\ HasParameter(param)
    /\ nd[param.dependency].call = NoCall
    /\ ~HasDefault(param)

\* indexes of the parameters get_params would raise on
wiring_errors(nd, params) ==
    {i \in 1..Len(params) : unwired(nd, params[i])}

---------------------------------------------------------------------------
(* The input families.  "exec" holds the graphs of the caching tests (a   *)
(* root_dep over dependencies on dep, or dep alone); the others feed the  *)
(* solver alone: "kinds" has parameters of every kind, "marker" has nodes  *)
(* without a call that declare dependencies of their own.                 *)

Families == {"exec", "fixed", "topo", "scope", "bind", "kinds", "marker"}

\* the families of the caching tests' graphs: dep() counts in "exec" and
\* returns one fixed value per node in "fixed"
ExecFamilies == {"exec", "fixed"}

Node(c, u, s) == [call |-> c, use_cache |-> u, scope |-> s]

\* the node objects a dependency list may introduce
Profiles ==
    CASE fam \in ExecFamilies -> {Node(2, u, s) : u \in BOOLEAN, s \in ScopeNames}
      [] fam = "topo"  -> {Node(2, TRUE, "None"), Node(3, TRUE, "None"),
                           Node(NoCall, TRUE, "None")}
      [] fam = "scope" -> {Node(2, TRUE, "scope"), Node(2, TRUE, "None"),
                           Node(2, FALSE, "scope"), Node(1, TRUE, "None"),
                           Node(NoCall, TRUE, "None")}
      [] fam = "bind"  -> {Node(2, TRUE, "None"), Node(NoCall, TRUE, "None")}
      [] fam = "kinds" -> {Node(2, TRUE, "None"), Node(3, TRUE, "None")}
      [] fam = "marker" -> {Node(NoCall, TRUE, "None"), Node(2, TRUE, "None"),
                            Node(1, TRUE, "scope")}

\* the parameters a dependency list may hold
Kinds ==
    CASE fam = "exec"  -> {"pos"}
      [] fam = "fixed" -> {"pos", "none"}
      [] fam = "topo"  -> {"pos", "none"}
      [] fam = "scope" -> {"pos"}
      [] fam = "bind"  -> {"pos", "posdef"}
      [] fam = "kinds" -> {"none", "pos", "kw"}
      [] fam = "marker" -> {"pos", "posdef"}

\* the declared roots
RootProfiles(f) ==
    CASE f \in ExecFamilies -> {Node(c, u, s) :
                            c \in {1, 2}, u \in BOOLEAN, s \in ScopeNames}
      [] f = "topo"  -> {Node(1, TRUE, "None")}
      [] f = "scope" -> {Node(1, TRUE, s) : s \in ScopeNames}
      [] f = "bind"  -> {Node(1, TRUE, "None")}
      [] f = "kinds" -> {Node(1, TRUE, "None")}
      [] f = "marker" -> {Node(1, TRUE, "None")}

\* the providers bind hooks may put in
ProviderProfiles(f) ==
    CASE f = "bind" -> {Node(3, TRUE, "None"), Node(NoCall, TRUE, "None")}
      [] f = "marker" -> {Node(3, TRUE, "None")}
      [] OTHER -> {}

\* how many bind hooks a container of the family may hold
MaxHooksOf(f) ==
    CASE f = "bind" -> MaxHooks
      [] f = "marker" -> MaxHooks - 1
      [] OTHER -> 0

\* how many parameters node n may declare; a node without a call declares
\* dependencies in the family "marker" alone
MaxDepsOf(n) ==
    CASE fam = "marker" -> IF n = 1 THEN MaxDeps
                           ELSE IF nodes[n].call = NoCall THEN MaxDeps - 1
                           ELSE 0
      [] nodes[n].call = NoCall -> 0
      [] fam = "kinds" -> IF n = 1 THEN MaxDeps ELSE MaxDeps - 1
      [] fam \in ExecFamilies -> IF nodes[n].call = 1 THEN MaxDeps ELSE 0
      [] fam = "bind" -> IF n = 1 THEN MaxDeps
                         ELSE IF n <= 1 + Len(binds) THEN MaxDeps - 1 ELSE 0
      [] OTHER -> MaxDeps

Param(k, i, d) == [parameter |-> k, name |-> i, dependency |-> d]

NoDecl == [params |-> <<>>, fresh |-> <<>>]

\* the lists one longer than c: the new parameter depends on a node that
\* exists already, or on a new node object
DeclExtend(c) ==
    LET n == Len(nodes) + Len(c.fresh)
        i == Len(c.params) + 1
    IN  {[c EXCEPT !.params = Append(@, Param(k, i, d))] :
            k \in Kinds, d \in 1..n}
        \cup
        {[params |-> Append(c.params, Param(k, i, n + 1)),
          fresh |-> Append(c.fresh, p)] :
            k \in {x \in Kinds : n < MaxNodes + Len(binds)}, p \in Profiles}

RECURSIVE DeclOfLen(_)
DeclOfLen(len) ==
    IF len = 0 THEN {NoDecl}
    ELSE UNION {DeclExtend(c) : c \in DeclOfLen(len - 1)}

\* dep.get_dependencies(): every list the introspection of n may return
get_dependencies(n) == UNION {DeclOfLen(len) : len \in 0..MaxDepsOf(n)}

---------------------------------------------------------------------------
(* solve: the traversal, lines 27-95 *)

\* no execution under way
Idle == [active |-> FALSE, pos |-> 0, results |-> <<>>, invoked |-> {},
         stack0 |-> <<>>]

InitOf(f) ==
    /\ fam = f
    /\ \E root \in RootProfiles(f) :
       \E np \in 0..MaxHooksOf(f) :
       \E prov \in [1..np -> ProviderProfiles(f)] :
       \E match \in [1..np -> IF f = "marker" THEN {2}
                                ELSE Calls \cup {NoCall}] :
          /\ nodes = <<root>> \o prov
          /\ binds = [i \in 1..np |-> [match |-> match[i], provider |-> i + 1]]
    /\ declared = <<>>
    /\ pc = "start"
    /\ dependency = 1
    /\ nodes[bind_root(dependency, 1)].call # NoCall
    /\ dependants = <<>>
    /\ param_graph = <<>>
    /\ parents = <<>>
    /\ q = <<>>
    /\ seen = {}
    /\ err = ""
    /\ errDep = 0
    /\ errParam = 0
    /\ errKey = <<>>
    /\ dep_topsort = <<>>
    /\ tasks = <<>>
    /\ ts = <<>>
    /\ static_order = <<>>
    /\ stack = <<>>
    /\ entered = 0
    /\ gen = 0
    /\ ex = Idle
    /\ runs = <<>>
    /\ cx = <<>>

\* lines 27-39, 68-69: the root after binds, and the empty tables
Start ==
    /\ pc = "start"
    /\ dependency' = bind_root(dependency, 1)
    /\ q' = <<dependency'>>
    /\ pc' = "loop"
    /\ UNCHANGED <<fam, nodes, binds, declared, dependants, param_graph,
                   parents, seen, err, errDep, errParam, errKey,
                   dep_topsort, tasks, ts, static_order, execVars>>

\* lines 90-95 with a break after the first parameter
to_push_first(params, i, sn) ==
    IF i > Len(params) \/ i > 1 \/ params[i].dependency \in sn THEN <<>>
    ELSE <<params[i].dependency>>

RECURSIVE to_push(_, _, _)
\* lines 90-95: the dependencies not yet popped, in parameter order
to_push(params, i, sn) ==
    IF i > Len(params) THEN <<>>
    ELSE (IF params[i].dependency \in sn THEN <<>>
          ELSE <<params[i].dependency>>) \o to_push(params, i + 1, sn)

\* lines 92-93: every dependency's parent is dep
set_parents(par, params, dep) ==
    [n \in DOMAIN par \cup {params[i].dependency : i \in 1..Len(params)} |->
        IF \E i \in 1..Len(params) : params[i].dependency = n
        THEN dep ELSE par[n]]

\* lines 74-76 without the comparison of the scopes
scope_conflict_never(dep) ==
    /\ cache_key(dep) \in DOMAIN dependants
    /\ FALSE

\* lines 74-76: dep's cache key is taken by a node of another scope
scope_conflict(dep) ==
    /\ cache_key(dep) \in DOMAIN dependants
    /\ nodes[dependants[cache_key(dep)]].scope # nodes[dep].scope

\* lines 70-95: one turn of the worklist loop
Expand ==
    /\ pc = "loop"
    /\ q # <<>>
    /\ LET dep == Last(q)
           key == cache_key(dep)
       IN  /\ seen' = seen \cup {dep}
           /\ UNCHANGED <<fam, binds, dependency, dep_topsort, tasks, ts,
                          static_order, errKey, execVars>>
           /\ IF key \in DOMAIN dependants
              THEN /\ IF scope_conflict(dep)
                      THEN /\ err' = "Solving"
                           /\ errDep' = dep
                           /\ pc' = "failed"
                      ELSE UNCHANGED <<err, errDep, pc>>
                   /\ q' = Front(q)
                   /\ UNCHANGED <<nodes, declared, dependants, param_graph,
                                  parents, errParam>>
              ELSE \E decl \in get_dependencies(dep) :
                   /\ nodes' = nodes \o decl.fresh
                   /\ declared' = Put(declared, dep, decl.params)
                   /\ dependants' = Put(dependants, key, dep)
                   /\ LET nd == nodes \o decl.fresh
                          params == bound_params(nd, decl.params)
                      IN  IF wiring_errors(nd, params) # {}
                          THEN /\ err' = "Wiring"
                               /\ errDep' = dep
                               /\ errParam' = Min(wiring_errors(nd, params))
                               /\ pc' = "failed"
                               /\ q' = Front(q)
                               /\ UNCHANGED <<param_graph, parents>>
                          ELSE /\ param_graph' = Append(param_graph,
                                    [dep |-> dep, params |-> params])
                               /\ parents' = set_parents(parents, params, dep)
                               /\ q' = Front(q) \o to_push(params, 1, seen')
                               /\ UNCHANGED <<err, errDep, errParam, pc>>

---------------------------------------------------------------------------
(* graphlib's TopologicalSorter, as solve uses it.  A sorter is the list   *)
(* of its add(node, *predecessors) calls; its nodes keep the order in      *)
(* which add first met them, as the dict of node infos does.               *)

RECURSIVE add_new(_, _)
\* the nodes of `order`, then those of `xs` not met before
add_new(order, xs) ==
    IF xs = <<>> THEN order
    ELSE add_new(IF Head(xs) \in Range(order) THEN order
                 ELSE Append(order, Head(xs)), Tail(xs))

RECURSIVE ts_nodes(_)
ts_nodes(adds) ==
    IF adds = <<>> THEN <<>>
    ELSE add_new(ts_nodes(Front(adds)),
                 <<Last(adds).node>> \o Last(adds).preds)

RECURSIVE count_of(_, _)
\* how many times x occurs in xs
count_of(xs, x) ==
    IF xs = <<>> THEN 0
    ELSE (IF Head(xs) = x THEN 1 ELSE 0) + count_of(Tail(xs), x)

RECURSIVE npredecessors(_, _)
\* add: nodeinfo.npredecessors += len(predecessors)
npredecessors(adds, n) ==
    IF adds = <<>> THEN 0
    ELSE (IF Head(adds).node = n THEN Len(Head(adds).preds) ELSE 0)
         + npredecessors(Tail(adds), n)

RECURSIVE repeat(_, _)
repeat(x, k) == IF k = 0 THEN <<>> ELSE <<x>> \o repeat(x, k - 1)

RECURSIVE successors(_, _)
\* add: the node is appended to each predecessor's successors
successors(adds, n) ==
    IF adds = <<>> THEN <<>>
    ELSE repeat(Head(adds).node, count_of(Head(adds).preds, n))
         \o successors(Tail(adds), n)

RECURSIVE done_successors(_, _)
\* done: each successor loses one predecessor and is ready at zero
done_successors(st, succs) ==
    IF succs = <<>> THEN st
    ELSE LET s == Head(succs)
             left == st.npred[s] - 1
         IN done_successors(
                [npred |-> [st.npred EXCEPT ![s] = left],
                 ready |-> IF left = 0 THEN Append(st.ready, s) ELSE st.ready],
                Tail(succs))

RECURSIVE done(_, _, _)
\* done(*group)
done(adds, st, group) ==
    IF group = <<>> THEN st
    ELSE done(adds, done_successors(st, successors(adds, Head(group))),
              Tail(group))

RECURSIVE ready_groups(_, _, _)
\* static_order: get_ready(), yield the group, done(*group), until idle
ready_groups(adds, npred, ready) ==
    IF ready = <<>> THEN <<>>
    ELSE LET st == done(adds, [npred |-> npred, ready |-> <<>>], ready)
         IN ready \o ready_groups(adds, st.npred, st.ready)

RECURSIVE zero_of(_, _)
\* prepare: the nodes without predecessors, in insertion order
zero_of(order, npred) ==
    IF order = <<>> THEN <<>>
    ELSE (IF npred[Head(order)] = 0 THEN <<Head(order)>> ELSE <<>>)
         \o zero_of(Tail(order), npred)

\* the nodes in the order static_order() yields them; shorter than the
\* sorter's nodes exactly when prepare() raises CycleError
ts_static_order(adds) ==
    LET order == ts_nodes(adds)
        npred == [n \in Range(order) |-> npredecessors(adds, n)]
    IN ready_groups(adds, npred, zero_of(order, npred))

ts_has_cycle(adds) == Len(ts_static_order(adds)) < Len(ts_nodes(adds))

\* the nodes CycleError may name last: those on a cycle
ts_cycle_nodes(adds) ==
    OnCycle(UNION {{<<adds[i].preds[j], adds[i].node>> :
                       j \in 1..Len(adds[i].preds)} : i \in 1..Len(adds)})

---------------------------------------------------------------------------
(* solve, lines 96-141, and build_tasks *)

RECURSIVE computable_params(_)
\* line 99: the parameters whose dependency has a call
computable_params(params) ==
    IF params = <<>> THEN <<>>
    ELSE (IF nodes[Head(params).dependency].call # NoCall
          THEN <<Head(params)>> ELSE <<>>)
         \o computable_params(Tail(params))

RECURSIVE computable_graph_all(_)
\* lines 98-102 without the test of line 101: nodes without call keep
\* their entry
computable_graph_all(pg) ==
    IF pg = <<>> THEN <<>>
    ELSE <<[dep |-> Head(pg).dep,
            params |-> computable_params(Head(pg).params)]>>
         \o computable_graph_all(Tail(pg))

RECURSIVE computable_graph(_)
\* lines 98-102: the entries of param_graph whose node has a call
computable_graph(pg) ==
    IF pg = <<>> THEN <<>>
    ELSE (IF nodes[Head(pg).dep].call # NoCall
          THEN <<[dep |-> Head(pg).dep,
                  params |-> computable_params(Head(pg).params)]>>
          ELSE <<>>)
         \o computable_graph(Tail(pg))

computable_param_graph == computable_graph(param_graph)

\* lines 108-111 with the parameters taken last to first
key_sorter_reversed ==
    [i \in 1..Len(computable_param_graph) |->
        LET e == computable_param_graph[i]
        IN [node |-> cache_key(e.dep),
            preds |-> [j \in 1..Len(e.params) |->
                          cache_key(e.params[Len(e.params) + 1 - j].dependency)]]]

\* lines 108-111: the sorter over cache keys
key_sorter ==
    [i \in 1..Len(computable_param_graph) |->
        LET e == computable_param_graph[i]
        IN [node |-> cache_key(e.dep),
            preds |-> [j \in 1..Len(e.params) |->
                          cache_key(e.params[j].dependency)]]]

\* line 115 taking a node of the sorter instead of one of the cycle
cycle_error_dep_any(adds) == Range(ts_nodes(adds))

\* line 115: the last node of the cycle CycleError carries
cycle_error_dep(adds) == ts_cycle_nodes(adds)

\* lines 96-119: the static order of the cache keys, or the cycle error
TopSort ==
    /\ pc = "loop"
    /\ q = <<>>
    /\ IF ts_has_cycle(key_sorter)
       THEN /\ err' = "Cycle"
            /\ errKey' \in cycle_error_dep(key_sorter)
            /\ pc' = "failed"
            /\ UNCHANGED dep_topsort
       ELSE /\ dep_topsort' = ts_static_order(key_sorter)
            /\ pc' = "build"
            /\ UNCHANGED <<err, errKey>>
    /\ UNCHANGED <<fam, nodes, binds, declared, dependency, dependants,
                   param_graph, parents, q, seen, errDep, errParam, tasks,
                   ts, static_order, execVars>>

\* whether dag[dep] exists
in_dag(dep) ==
    \E i \in 1..Len(computable_param_graph) :
        computable_param_graph[i].dep = dep

\* dag[dep] in build_tasks
dag(dep) ==
    LET i == CHOOSE i \in 1..Len(computable_param_graph) :
                 computable_param_graph[i].dep = dep
    IN computable_param_graph[i].params

\* whether tasks[key] exists
has_task(tk, key) == \E i \in 1..Len(tk) : tk[i].cache_key = key

\* the task compiled for a cache key: tasks[key]
task_of(tk, key) == tk[CHOOSE i \in 1..Len(tk) : tk[i].cache_key = key]

RECURSIVE positional_of_absent(_, _)
\* lines 157-163 without the test of line 158: a parameter that is None
\* counts as positional
positional_of_absent(tk, params) ==
    IF params = <<>> THEN <<>>
    ELSE (IF ~IsKeywordOnly(Head(params))
          THEN <<task_of(tk, cache_key(Head(params).dependency)).task_id>>
          ELSE <<>>)
         \o positional_of_absent(tk, Tail(params))

RECURSIVE positional_of(_, _)
\* lines 157-163: the tasks of the parameters that are not keyword-only
positional_of(tk, params) ==
    IF params = <<>> THEN <<>>
    ELSE (IF HasParameter(Head(params)) /\ ~IsKeywordOnly(Head(params))
          THEN <<task_of(tk, cache_key(Head(params).dependency)).task_id>>
          ELSE <<>>)
         \o positional_of(tk, Tail(params))

RECURSIVE keyword_of(_, _)
\* lines 157-161: name -> task of the keyword-only parameters
keyword_of(tk, params) ==
    IF params = <<>> THEN <<>>
    ELSE (IF HasParameter(Head(params)) /\ IsKeywordOnly(Head(params))
          THEN <<<<Head(params).name,
                   task_of(tk, cache_key(Head(params).dependency)).task_id>>>>
          ELSE <<>>)
         \o keyword_of(tk, Tail(params))

\* lines 169-178 with use_cache=False for every Task
new_task_uncached(tk, dep) ==
    [scope |-> nodes[dep].scope,
     call |-> nodes[dep].call,
     use_cache |-> FALSE,
     cache_key |-> cache_key(dep),
     dependant |-> dep,
     task_id |-> Len(tk),
     positional_parameters |-> positional_of(tk, dag(dep)),
     keyword_parameters |-> keyword_of(tk, dag(dep))]

\* lines 169-178 with the outermost scope for every Task
new_task_outer(tk, dep) ==
    [scope |-> Scopes[1],
     call |-> nodes[dep].call,
     use_cache |-> nodes[dep].use_cache,
     cache_key |-> cache_key(dep),
     dependant |-> dep,
     task_id |-> Len(tk),
     positional_parameters |-> positional_of(tk, dag(dep)),
     keyword_parameters |-> keyword_of(tk, dag(dep))]

\* lines 169-178 with use_cache=True for every Task
new_task_cached(tk, dep) ==
    [scope |-> nodes[dep].scope,
     call |-> nodes[dep].call,
     use_cache |-> TRUE,
     cache_key |-> cache_key(dep),
     dependant |-> dep,
     task_id |-> Len(tk),
     positional_parameters |-> positional_of(tk, dag(dep)),
     keyword_parameters |-> keyword_of(tk, dag(dep))]

\* lines 169-179 with task_id += 1 ahead of the Task: ids count from 1
new_task_from_one(tk, dep) ==
    [scope |-> nodes[dep].scope,
     call |-> nodes[dep].call,
     use_cache |-> nodes[dep].use_cache,
     cache_key |-> cache_key(dep),
     dependant |-> dep,
     task_id |-> Len(tk) + 1,
     positional_parameters |-> positional_of(tk, dag(dep)),
     keyword_parameters |-> keyword_of(tk, dag(dep))]

\* lines 169-178: the Task of dep, with the next task_id
new_task(tk, dep) ==
    [scope |-> nodes[dep].scope,
     call |-> nodes[dep].call,
     use_cache |-> nodes[dep].use_cache,
     cache_key |-> cache_key(dep),
     dependant |-> dep,
     task_id |-> Len(tk),
     positional_parameters |-> positional_of(tk, dag(dep)),
     keyword_parameters |-> keyword_of(tk, dag(dep))]

\* line 180 with the arguments of add in the wrong order:
\* ts.add(*(tasks[...] for p in dag[dep]), task)
task_add_swapped(tk, dep) ==
    LET preds == [j \in 1..Len(dag(dep)) |->
                     task_of(tk, cache_key(dag(dep)[j].dependency)).task_id]
        args == Append(preds, Len(tk))
    IN [node |-> Head(args), preds |-> Tail(args)]

\* line 180 with the edges that have a parameter only
task_add_parameters(tk, dep) ==
    [node |-> Len(tk), preds |-> positional_of(tk, dag(dep))]

\* line 180: ts.add(task, *(tasks[p.dependency.cache_key] for p in dag[dep]))
task_add(tk, dep) ==
    [node |-> Len(tk),
     preds |-> [j \in 1..Len(dag(dep)) |->
                   task_of(tk, cache_key(dag(dep)[j].dependency)).task_id]]

\* the dict lookups of one turn of build_tasks' loop all find their key
lookups_ok(tk, key) ==
    /\ key \in DOMAIN dependants
    /\ in_dag(dependants[key])
    /\ \A j \in 1..Len(dag(dependants[key])) :
           has_task(tk, cache_key(dag(dependants[key])[j].dependency))

RECURSIVE build_tasks(_, _)
\* lines 152-181: one Task and one add() per key of topsorted, until a
\* lookup raises KeyError
build_tasks(topsorted, st) ==
    IF topsorted = <<>> \/ ~st.ok THEN st
    ELSE IF ~lookups_ok(st.tasks, Head(topsorted))
         THEN [st EXCEPT !.ok = FALSE]
         ELSE LET dep == dependants[Head(topsorted)]
              IN build_tasks(Tail(topsorted),
                     [tasks |-> Append(st.tasks, new_task(st.tasks, dep)),
                      ts |-> Append(st.ts, task_add(st.tasks, dep)),
                      ok |-> TRUE])

\* line 127: tuple(ts.copy().static_order())
task_static_order(adds) == ts_static_order(adds)

\* lines 120-134: the tasks, their sorter and the static order
BuildTasks ==
    /\ pc = "build"
    /\ LET st == build_tasks(dep_topsort,
                             [tasks |-> <<>>, ts |-> <<>>, ok |-> TRUE])
       IN IF st.ok /\ ~ts_has_cycle(st.ts)
                   /\ has_task(st.tasks, cache_key(dependency))
          THEN /\ tasks' = st.tasks
               /\ ts' = st.ts
               /\ static_order' = task_static_order(st.ts)
               /\ pc' = "validate"
               /\ UNCHANGED err
          ELSE /\ err' = IF st.ok /\ ts_has_cycle(st.ts)
                         THEN "CycleError" ELSE "KeyError"
               /\ pc' = "failed"
               /\ UNCHANGED <<tasks, ts, static_order>>
    /\ UNCHANGED <<fam, nodes, binds, declared, dependency, dependants,
                   param_graph, parents, q, seen, errDep, errParam,
                   errKey, dep_topsort, execVars>>

\* lines 89-92 recording the first dependency only
dep_dag_first(i) ==
    [j \in 1..Min({1, Len(param_graph[i].params)}) |->
        param_graph[i].params[j].dependency]

\* lines 89-92: dep_dag[dep], the dependencies of an expanded node
dep_dag(i) ==
    [j \in 1..Len(param_graph[i].params) |->
        param_graph[i].params[j].dependency]

ScopeIndex(s) == CHOOSE i \in 1..Len(Scopes) : Scopes[i] = s

\* validate_scopes: the edges (dependent, dependency) of dep_dag whose
\* dependency is declared in a scope inner to its dependent's
scope_violations ==
    {e \in UNION {{<<i, j>> : j \in 1..Len(dep_dag(i))} :
                     i \in 1..Len(param_graph)} :
        ScopeIndex(nodes[dep_dag(e[1])[e[2]]].scope)
            > ScopeIndex(nodes[param_graph[e[1]].dep].scope)}

\* lines 135-141: validate_scopes raises, or solve returns the plan
ValidateScopes ==
    /\ pc = "validate"
    /\ IF scope_violations # {}
       THEN /\ err' = "ScopeValidation"
            /\ pc' = "failed"
       ELSE /\ pc' = "solved"
            /\ UNCHANGED err
    /\ UNCHANGED <<fam, nodes, binds, declared, dependency, dependants,
                   param_graph, parents, q, seen, errDep, errParam, errKey,
                   dep_topsort, tasks, ts, static_order, execVars>>

Solve == Start \/ Expand \/ TopSort \/ BuildTasks \/ ValidateScopes

---------------------------------------------------------------------------
(* The container at run time: the stack of open scope instances, each with *)
(* its cache, and the sequential execution of the solved plan             *)
(* (execute_sync with SyncExecutor), as the caching tests drive them.     *)

OpenScopes == {stack[i].scope : i \in 1..Len(stack)}

\* the index in the stack of the open instance of scope s
FrameOf(s) == CHOOSE i \in 1..Len(stack) : stack[i].scope = s

\* container.enter_scope(s): a new instance of s, with an empty cache
EnterScope(s) ==
    /\ pc = "solved"
    /\ ~ex.active
    /\ cx = <<>>
    /\ entered < MaxEnters
    /\ \A o \in OpenScopes : ScopeIndex(o) < ScopeIndex(s)
    /\ entered' = entered + 1
    /\ stack' = Append(stack,
                       [scope |-> s, inst |-> entered + 1, cache |-> <<>>])
    /\ UNCHANGED <<solveVars, gen, ex, runs, cx>>

\* leaving the innermost open scope: its instance and cache are dropped
ExitScope ==
    /\ pc = "solved"
    /\ ~ex.active
    /\ cx = <<>>
    /\ stack # <<>>
    /\ stack' = Front(stack)
    /\ UNCHANGED <<solveVars, entered, gen, ex, runs, cx>>

\* line 133 with a buffer one slot short
empty_results_short == [i \in 0..(Len(tasks) - 2) |-> {}]

\* line 133: empty_results, [None] * len(tasks); None is the empty value
empty_results == [i \in 0..(Len(tasks) - 1) |-> {}]

\* container.execute_sync(solved, ...): a fresh copy of the results buffer
ExecuteStart ==
    /\ pc = "solved"
    /\ ~ex.active
    /\ cx = <<>>
    /\ Len(runs) < MaxRuns
    /\ \A i \in 1..Len(tasks) : tasks[i].scope \in OpenScopes
    /\ ex' = [active |-> TRUE, pos |-> 1, results |-> empty_results,
              invoked |-> {}, stack0 |-> stack]
    /\ UNCHANGED <<solveVars, stack, entered, gen, runs, cx>>

\* the arguments of a task: the results of its positional and keyword tasks
arguments(t, results) ==
    {results[t.positional_parameters[i]] :
        i \in 1..Len(t.positional_parameters)}
    \cup
    {results[t.keyword_parameters[i][2]] :
        i \in 1..Len(t.keyword_parameters)}

\* whether the execution reads the task's value from its scope's cache
cache_hit(t) ==
    /\ t.use_cache
    /\ t.cache_key \in DOMAIN stack[FrameOf(t.scope)].cache

\* the test's calls: dep() returns next(gen), root_dep returns the set of
\* its arguments
call_value(t, results) ==
    IF arguments(t, results) = {}
    THEN (IF fam = "fixed" THEN {10 * t.dependant} ELSE {gen})
    ELSE UNION arguments(t, results)

\* the next task of the static order: from the cache of its scope, or
\* invoked, stored in the results buffer and (use_cache) in the cache
ExecuteTask ==
    /\ ex.active
    /\ ex.pos <= Len(static_order)
    /\ LET t == tasks[static_order[ex.pos] + 1]
           f == FrameOf(t.scope)
       IN  IF cache_hit(t)
           THEN /\ ex' = [ex EXCEPT !.pos = @ + 1,
                             !.results[t.task_id] = stack[f].cache[t.cache_key]]
                /\ UNCHANGED <<stack, gen>>
           ELSE LET v == call_value(t, ex.results)
                IN  /\ ex' = [ex EXCEPT !.pos = @ + 1,
                                 !.results[t.task_id] = v,
                                 !.invoked = @ \cup {t.task_id}]
                    /\ gen' = IF arguments(t, ex.results) = {}
                              THEN gen + 1 ELSE gen
                    /\ stack' = IF t.use_cache
                                THEN [stack EXCEPT ![f].cache =
                                         Put(@, t.cache_key, v)]
                                ELSE stack
    /\ UNCHANGED <<solveVars, entered, runs, cx>>

\* line 130: root_task
root_task == task_of(tasks, cache_key(dependency))

\* the execution returns the root task's result
ExecuteFinish ==
    /\ ex.active
    /\ ex.pos > Len(static_order)
    /\ runs' = Append(runs,
                      [frames |-> [i \in 1..Len(stack) |->
                                      [scope |-> stack[i].scope,
                                       inst |-> stack[i].inst]],
                       results |-> ex.results,
                       invoked |-> ex.invoked,
                       value |-> ex.results[root_task.task_id],
                       mode |-> "sync",
                       alone |-> TRUE,
                       ran |-> static_order,
                       stack0 |-> ex.stack0,
                       stack1 |-> stack])
    /\ ex' = Idle
    /\ UNCHANGED <<solveVars, stack, entered, gen, cx>>

Execute == ExecuteStart \/ ExecuteTask \/ ExecuteFinish

---------------------------------------------------------------------------
(* Concurrent mode: every execution works on a copy of the prepared       *)
(* sorter, is handed the ready tasks, and the executor runs them in any   *)
(* order; a task's cache lookup, call and cache store are one step.       *)

\* line 128 without the predecessor counts: every task ready at once
prepared_flat == [n \in Range(ts_nodes(ts)) |-> 0]

\* line 128, ts.prepare(): the predecessor count of every task
prepared == [n \in Range(ts_nodes(ts)) |-> npredecessors(ts, n)]

\* get_ready() on a fresh copy: the tasks without predecessors
first_ready == zero_of(ts_nodes(ts), prepared)

\* execute_async / a concurrent executor: a copy of the sorter and of the
\* results buffer, and the first ready set dispatched
ConcurrentStart ==
    /\ pc = "solved"
    /\ ~ex.active
    /\ Len(cx) < MaxConc
    /\ Len(runs) + Len(cx) < MaxRuns
    /\ \A i \in 1..Len(tasks) : tasks[i].scope \in OpenScopes
    /\ cx' = Append([k \in 1..Len(cx) |-> [cx[k] EXCEPT !.alone = FALSE]],
                    [npred |-> prepared,
                     ready |-> Range(first_ready),
                     dispatched |-> first_ready,
                     ran |-> <<>>,
                     results |-> empty_results,
                     invoked |-> {},
                     stack0 |-> stack,
                     alone |-> cx = <<>>])
    /\ UNCHANGED <<solveVars, stack, entered, gen, ex, runs>>

\* the executor runs the dispatched task id of execution k; done(task)
\* makes the tasks that waited for it alone ready, and they are dispatched
ConcurrentTask(k, id) ==
    /\ k \in 1..Len(cx)
    /\ id \in cx[k].ready
    /\ LET t == tasks[id + 1]
           f == FrameOf(t.scope)
           st == done_successors([npred |-> cx[k].npred, ready |-> <<>>],
                                 successors(ts, id))
           e == [cx[k] EXCEPT !.npred = st.npred,
                              !.ready = (@ \ {id}) \cup Range(st.ready),
                              !.dispatched = @ \o st.ready,
                              !.ran = Append(@, id)]
       IN  IF cache_hit(t)
           THEN /\ cx' = [cx EXCEPT ![k] =
                             [e EXCEPT !.results[id] =
                                 stack[f].cache[t.cache_key]]]
                /\ UNCHANGED <<stack, gen>>
           ELSE LET v == call_value(t, cx[k].results)
                IN  /\ cx' = [cx EXCEPT ![k] =
                                 [e EXCEPT !.results[id] = v,
                                           !.invoked = @ \cup {id}]]
                    /\ gen' = IF arguments(t, cx[k].results) = {}
                              THEN gen + 1 ELSE gen
                    /\ stack' = IF t.use_cache
                                THEN [stack EXCEPT ![f].cache =
                                         Put(@, t.cache_key, v)]
                                ELSE stack
    /\ UNCHANGED <<solveVars, entered, ex, runs>>

\* the sorter copy is no longer active: the root task's result is returned
ConcurrentFinish(k) ==
    /\ k \in 1..Len(cx)
    /\ cx[k].ready = {}
    /\ runs' = Append(runs,
                      [frames |-> [i \in 1..Len(stack) |->
                                      [scope |-> stack[i].scope,
                                       inst |-> stack[i].inst]],
                       results |-> cx[k].results,
                       invoked |-> cx[k].invoked,
                       value |-> cx[k].results[root_task.task_id],
                       mode |-> "concurrent",
                       alone |-> cx[k].alone,
                       ran |-> cx[k].ran,
                       stack0 |-> cx[k].stack0,
                       stack1 |-> stack])
    /\ cx' = [i \in 1..(Len(cx) - 1) |-> IF i < k THEN cx[i] ELSE cx[i + 1]]
    /\ UNCHANGED <<solveVars, stack, entered, gen, ex>>

Concurrent ==
    \/ ConcurrentStart
    \/ \E k \in 1..MaxConc : \E id \in 0..MaxNodes : ConcurrentTask(k, id)
    \/ \E k \in 1..MaxConc : ConcurrentFinish(k)

Container == (\E s \in ScopeNames : EnterScope(s)) \/ ExitScope \/ Execute

Next == Solve \/ Container

Init == \E f \in {"exec"} : InitOf(f)

InitSolve == \E f \in Families \ ExecFamilies : InitOf(f)

\* the caching tests: solve, then scopes and executions
Spec == Init /\ [][Next]_vars

InitConc == \E f \in ExecFamilies : InitOf(f)

NextConc == Next \/ Concurrent

\* solve, then scopes and executions in either mode; an execution under
\* way is carried on
SpecConc == InitConc /\ [][NextConc]_vars /\ WF_vars(Execute \/ Concurrent)

\* solve alone, which runs to its return or its exception
SpecSolve == InitSolve /\ [][Solve]_vars /\ WF_vars(Solve)

---------------------------------------------------------------------------
(* The path an error reports.  get_path(dep, parents) follows the parent   *)
(* map from dep up to a node without parent and lists the nodes root       *)
(* first.  The parent map is keyed by node objects: a cache key, which is  *)
(* what the cycle error hands to it, is never one of its keys.             *)

RECURSIVE node_path(_, _)
node_path(n, fuel) ==
    IF n \notin DOMAIN parents \/ fuel = 0 THEN <<<<"node", n>>>>
    ELSE Append(node_path(parents[n], fuel - 1), <<"node", n>>)

\* get_path(dep, parents) for a node object
get_path(n) == node_path(n, Len(nodes))

\* get_path(dep, parents) for the cache key of line 115
get_path_of_key(k) == <<k>>

---------------------------------------------------------------------------
(* What the claims speak of: the graph as declared, read from the lists    *)
(* get_dependencies() returned, with the binds applied.                    *)

Terminated == pc \in {"solved", "failed"}

\* the parameters of an expanded node after bind substitution
BoundOf(n) == bound_params(nodes, declared[n])

\* the edges (dependent, dependency) between node objects
NodeEdges ==
    UNION {{<<n, BoundOf(n)[i].dependency>> : i \in 1..Len(declared[n])} :
              n \in DOMAIN declared}

Computable(n) == nodes[n].call # NoCall

\* the same edges between cache keys
KeyEdges == {<<cache_key(e[1]), cache_key(e[2])>> : e \in NodeEdges}

RECURSIVE ReachIter(_, _)
ReachIter(R, k) ==
    LET keys == {cache_key(n) : n \in R}
        S == R \cup {e[2] : e \in {x \in NodeEdges : cache_key(x[1]) \in keys}}
    IN IF k = 0 \/ S = R THEN R ELSE ReachIter(S, k - 1)

\* the node objects reachable from the root: a node object that was not
\* expanded has the dependencies of the expanded node with its cache key
Reach == ReachIter({dependency}, Len(nodes))

\* task a comes before task b in the static order
Before(a, b) ==
    \E i, j \in 1..Len(static_order) :
        i < j /\ static_order[i] = a /\ static_order[j] = b

\* the predecessors registered for a task in the execution sorter
SorterPreds(id) ==
    UNION {Range(ts[i].preds) : i \in {j \in 1..Len(ts) : ts[j].node = id}}

\* the tasks a task refers to as positional or keyword dependencies
TaskRefs(t) ==
    Range(t.positional_parameters)
        \cup {t.keyword_parameters[i][2] : i \in 1..Len(t.keyword_parameters)}

TaskEdges ==
    UNION {{<<tasks[i].task_id, d>> :
               d \in TaskRefs(tasks[i]) \cup SorterPreds(tasks[i].task_id)} :
              i \in 1..Len(tasks)}

\* C5: in a returned plan the static order holds every task once, every
\* task a task refers to (positional, keyword, sorter predecessor) comes
\* strictly before it, and the root task comes after all it depends on.
C5_StaticOrderTopological ==
    pc = "solved" =>
        /\ Len(static_order) = Len(tasks)
        /\ Range(static_order) = {tasks[i].task_id : i \in 1..Len(tasks)}
        /\ \A e \in TaskEdges : Before(e[2], e[1])
        /\ \A e \in Closure(TaskEdges) :
               e[1] = root_task.task_id => Before(e[2], e[1])

\* C5's case: a plan whose root has two dependency tasks, one of which
\* depends on the other.
C5_Witness ==
    /\ pc = "solved"
    /\ Len(tasks) = 3
    /\ Cardinality(SorterPreds(root_task.task_id)) = 2
    /\ \E d \in SorterPreds(root_task.task_id) : SorterPreds(d) # {}

---------------------------------------------------------------------------
(* The defects a declared graph may have, read from the declared lists.   *)

\* the parameter edges (node, index) of the expanded nodes
ParamEdges ==
    UNION {{<<n, i>> : i \in 1..Len(declared[n])} : n \in DOMAIN declared}

\* a parameter without default whose dependency, binds applied, has no call
WiringDefects ==
    {e \in ParamEdges :
        /\ declared[e[1]][e[2]].parameter \in {"pos", "kw"}
        /\ nodes[BoundOf(e[1])[e[2]].dependency].call = NoCall}

\* two reachable nodes with one cache key and two scopes
ScopeConflicts ==
    {e \in Reach \X Reach :
        /\ cache_key(e[1]) = cache_key(e[2])
        /\ nodes[e[1]].scope # nodes[e[2]].scope}

\* a dependency declared in a scope inner to its dependent's
InnerScopeEdges ==
    {e \in NodeEdges :
        ScopeIndex(nodes[e[2]].scope) > ScopeIndex(nodes[e[1]].scope)}

CycleMembers == OnCycle(KeyEdges)

\* the edges between the cache keys of nodes that have a call, which are
\* all the sorter of lines 107-112 is given
ComputableKeyEdges ==
    {<<cache_key(e[1]), cache_key(e[2])>> :
        e \in {x \in NodeEdges : Computable(x[1]) /\ Computable(x[2])}}

\* the members of the cycles that pass through nodes with a call only
ComputableCycleMembers == OnCycle(ComputableKeyEdges)

\* the tasks compiled for a cache key
TasksOfKey(k) == {i \in 1..Len(tasks) : tasks[i].cache_key = k}

\* C6 (state part): a returned plan holds exactly one task per cache key of
\* the reachable nodes that have a call, each once in the static order; and
\* solve fails only on a graph that has a cycle, a wiring defect, a scope
\* conflict or an inner-scoped dependency.
C6_Plan ==
    /\ pc = "solved" =>
          /\ \A n \in Reach :
                 Computable(n) => Cardinality(TasksOfKey(cache_key(n))) = 1
          /\ \A i \in 1..Len(tasks) :
                 /\ \E n \in Reach :
                        Computable(n) /\ cache_key(n) = tasks[i].cache_key
                 /\ count_of(static_order, tasks[i].task_id) = 1
          /\ Len(static_order) = Len(tasks)
    /\ pc = "failed" =>
          \/ CycleMembers # {}
          \/ WiringDefects # {}
          \/ ScopeConflicts # {}
          \/ InnerScopeEdges # {}

\* the node objects a declared graph of the families may hold
MaxObjects == MaxNodes + MaxHooks + 1

\* the steps solve has left at most: every turn of the loop pops one node,
\* and only the first node popped under a cache key pushes its parameters
Variant ==
    CASE pc = "start" -> 5 + MaxObjects * (MaxDeps + 1)
      [] pc = "loop" -> 3 + Len(q)
            + (MaxObjects - Cardinality(DOMAIN dependants)) * (MaxDeps + 1)
      [] pc = "build" -> 2
      [] pc = "validate" -> 1
      [] OTHER -> 0

\* solve has a step to take
CanStep ==
    \/ pc \in {"start", "build", "validate"}
    \/ pc = "loop" /\ q # <<>> /\ get_dependencies(Last(q)) # {}
    \/ pc = "loop" /\ q = <<>>
          /\ (ts_has_cycle(key_sorter) => cycle_error_dep(key_sorter) # {})

C7_Original ==
    (Terminated /\ CycleMembers # {}) =>
        /\ pc = "failed"
        /\ err = "Cycle"
        /\ Last(get_path_of_key(errKey)) \in CycleMembers

\* C7: on a graph with a cycle through nodes that have a call solve
\* returns no plan: it fails with the cycle error, or with the wiring or
\* scope-conflict error the traversal met first; without such a defect the
\* error is the cycle error, and the path a cycle error reports ends at
\* the cache key of a member of such a cycle.  A cycle that passes through
\* a node without call is no cycle of the sorter.
C7_CycleFails ==
    /\ (Terminated /\ ComputableCycleMembers # {}) =>
          /\ pc = "failed"
          /\ err \in {"Cycle", "Wiring", "Solving"}
          /\ tasks = <<>>
          /\ (WiringDefects = {} /\ ScopeConflicts = {}) => err = "Cycle"
    /\ err = "Cycle" =>
          /\ pc = "failed"
          /\ Last(get_path_of_key(errKey)) \in ComputableCycleMembers

\* C7's case: the cycle error on a cycle through two cache keys that does
\* not pass through the root.
C7_Witness ==
    /\ pc = "failed"
    /\ err = "Cycle"
    /\ errKey # cache_key(dependency)
    /\ cache_key(dependency) \notin CycleMembers
    /\ Cardinality(CycleMembers) = 2

\* C8 as stated: whenever two reachable nodes share a cache key and differ
\* in scope, solve fails with the scope-conflict error.
C8_Original ==
    (Terminated /\ ScopeConflicts # {}) => (pc = "failed" /\ err = "Solving")

\* C8: in a returned plan all reachable nodes sharing a cache key share one
\* scope; on a graph with a scope conflict solve fails, with the
\* scope-conflict error unless a wiring error was met first, whichever of
\* the two occurrences the traversal pops first; and a scope-conflict
\* error names a node whose cache key was taken under another scope.
C8_ScopeConflictFails ==
    /\ pc = "solved" => ScopeConflicts = {}
    /\ (Terminated /\ ScopeConflicts # {}) =>
          /\ pc = "failed"
          /\ err \in {"Solving", "Wiring"}
          /\ WiringDefects = {} => err = "Solving"
    /\ err = "Solving" =>
          /\ pc = "failed"
          /\ \E o \in Reach : <<errDep, o>> \in ScopeConflicts

\* C8's case: the conflict is found at the occurrence declared first, which
\* the worklist pops after the one declared second, below the root.
C8_Witness ==
    /\ err = "Solving"
    /\ errDep # dependency
    /\ errDep < dependants[cache_key(errDep)]
    /\ parents[errDep] # dependency

BadEdges(n) == {e[2] : e \in {x \in WiringDefects : x[1] = n}}

\* C10: an expanded node with a parameter that has no default and whose
\* dependency after bind substitution has no call makes solve fail with a
\* Wiring error naming that node and its first such parameter; an expanded
\* node without such a parameter (the substituted dependency has a call,
\* or the parameter has a default, or there is no parameter) raises nothing
\* and enters the parameter graph.
C10_WiringError ==
    /\ \A n \in DOMAIN declared :
          IF BadEdges(n) # {}
          THEN /\ pc = "failed"
               /\ err = "Wiring"
               /\ errDep = n
               /\ errParam = Min(BadEdges(n))
          ELSE \E k \in 1..Len(param_graph) : param_graph[k].dep = n
    /\ err = "Wiring" =>
          /\ pc = "failed"
          /\ errDep \in DOMAIN declared
          /\ errParam \in BadEdges(errDep)

\* C10's case: the Wiring error names the second parameter, after a first
\* parameter on a dependency without call that has a default.
C10_Witness ==
    /\ err = "Wiring"
    /\ errParam = 2
    /\ HasDefault(declared[errDep][1])
    /\ nodes[BoundOf(errDep)[1].dependency].call = NoCall

\* C10's other case: a parameter without default declared on a dependency
\* without call, which a bind replaced by one that has a call, raised
\* nothing and the plan was returned.
C10_BoundCase ==
    /\ pc = "solved"
    /\ \E e \in ParamEdges :
          /\ declared[e[1]][e[2]].parameter = "pos"
          /\ nodes[declared[e[1]][e[2]].dependency].call = NoCall
          /\ nodes[BoundOf(e[1])[e[2]].dependency].call # NoCall

---------------------------------------------------------------------------
(* The caching rules, over the executions finished so far. *)

\* the instance of scope s an execution ran in; 0 when s was not open
InstOf(r, s) ==
    LET F == {i \in 1..Len(r.frames) : r.frames[i].scope = s}
    IN IF F = {} THEN 0 ELSE r.frames[CHOOSE i \in F : TRUE].inst

\* the node a task was compiled from
NodeOf(t) == nodes[t.dependant]

TaskSet == {tasks[i] : i \in 1..Len(tasks)}

\* the tasks on the test's dep(), which returns the next counter value
Counters == {t \in TaskSet : NodeOf(t).call = 2}

\* the executions that ran in scope instance inst
RunsIn(inst) ==
    {i \in 1..Len(runs) : \E k \in 1..Len(runs[i].frames) :
                              runs[i].frames[k].inst = inst}

\* two executions in two inner instances of one outer instance
TwoInnerRuns ==
    /\ Len(runs) = 2
    /\ InstOf(runs[1], "scope") = InstOf(runs[2], "scope")
    /\ InstOf(runs[1], "scope") # 0
    /\ InstOf(runs[1], "None") # InstOf(runs[2], "None")
    /\ InstOf(runs[1], "None") # 0
    /\ InstOf(runs[2], "None") # 0

\* C1: a task of a node with use_cache=True and scope S is invoked at most
\* once over the executions that run in one instance of S, and all of them
\* observe the same value for it.
C1_CachedOncePerScopeInstance ==
    \A t \in TaskSet : \A i, j \in 1..Len(runs) :
        (/\ NodeOf(t).use_cache
         /\ i < j
         /\ InstOf(runs[i], NodeOf(t).scope) # 0
         /\ InstOf(runs[i], NodeOf(t).scope) = InstOf(runs[j], NodeOf(t).scope))
        => /\ runs[j].results[t.task_id] = runs[i].results[t.task_id]
           /\ t.task_id \notin runs[j].invoked

\* C1's case: dep with use_cache=True in the outer scope, invoked by the
\* first of two executions in two inner instances of one outer instance.
C1_Witness ==
    /\ TwoInnerRuns
    /\ \E t \in Counters :
          /\ NodeOf(t).use_cache
          /\ NodeOf(t).scope = "scope"
          /\ t.task_id \in runs[1].invoked
          /\ runs[2].results[t.task_id] = {0}

\* C2: a task of a node with use_cache=True and scope None is cached in the
\* innermost scope instance only: a scope instance no execution ran in has
\* an empty cache, the open instances are distinct, an execution that is
\* the first in its inner instance invokes the task anew (a counter then
\* returns a value no earlier execution saw), and a root whose two
\* parameters share a cache key receives one task's single result twice.
C2_InnermostCache ==
    /\ \A k \in 1..Len(stack) :
          /\ stack[k].inst \in 1..entered
          /\ \A m \in 1..Len(stack) : stack[m].inst = stack[k].inst => m = k
          /\ (RunsIn(stack[k].inst) = {} /\ ~ex.active) => stack[k].cache = <<>>
          /\ \A t \in TaskSet :
                 (NodeOf(t).use_cache /\ NodeOf(t).scope = "None"
                     /\ stack[k].scope # "None")
                 => t.cache_key \notin DOMAIN stack[k].cache
    /\ \A t \in TaskSet : \A j \in 1..Len(runs) :
          (/\ NodeOf(t).use_cache
           /\ NodeOf(t).scope = "None"
           /\ \A i \in 1..(j - 1) :
                  InstOf(runs[i], "None") # InstOf(runs[j], "None"))
          => /\ t.task_id \in runs[j].invoked
             /\ t \in Counters =>
                    \A i \in 1..(j - 1) :
                        runs[i].results[t.task_id] # runs[j].results[t.task_id]
    /\ \A j \in 1..Len(runs) :
          (/\ Len(declared[dependency]) = 2
           /\ cache_key(BoundOf(dependency)[1].dependency)
                  = cache_key(BoundOf(dependency)[2].dependency))
          => /\ root_task.positional_parameters[1]
                    = root_task.positional_parameters[2]
             /\ Cardinality(runs[j].value) = 1

\* C2's case: the root over two node objects on dep, both use_cache=True
\* and scope None, executed in two inner instances: {0}, then {1}.
C2_Witness ==
    /\ TwoInnerRuns
    /\ Len(declared[dependency]) = 2
    /\ BoundOf(dependency)[1].dependency # BoundOf(dependency)[2].dependency
    /\ \A i \in 1..2 :
          nodes[BoundOf(dependency)[i].dependency] = Node(2, TRUE, "None")
    /\ runs[1].value = {0}
    /\ runs[2].value = {1}

\* C3: a task of a node with use_cache=False is invoked in every execution
\* and its cache key is in no scope cache; a counter so declared returns a
\* value no other counter task and no other execution saw; and two nodes
\* on one call of which one has use_cache=False are two tasks.
C3_UncachedAlwaysInvoked ==
    /\ \A t \in TaskSet :
          ~NodeOf(t).use_cache =>
              /\ \A j \in 1..Len(runs) : t.task_id \in runs[j].invoked
              /\ \A k \in 1..Len(stack) :
                     t.cache_key \notin DOMAIN stack[k].cache
              /\ t \in Counters =>
                     \A i, j \in 1..Len(runs) : \A u \in Counters :
                         (i # j \/ u # t) =>
                             runs[i].results[u.task_id]
                                 # runs[j].results[t.task_id]
    /\ pc = "solved" =>
          \A a, b \in Reach :
              (/\ a # b
               /\ Computable(a)
               /\ nodes[a].call = nodes[b].call
               /\ ~nodes[a].use_cache)
              => /\ Cardinality(TasksOfKey(cache_key(a))) = 1
                 /\ Cardinality(TasksOfKey(cache_key(b))) = 1
                 /\ TasksOfKey(cache_key(a)) # TasksOfKey(cache_key(b))

\* C3's case: the root over dep with use_cache=True and dep with
\* use_cache=False, both in the outer scope whose cache holds dep's value:
\* {0, 1}, then {0, 2}.
C3_Witness ==
    /\ TwoInnerRuns
    /\ Len(declared[dependency]) = 2
    /\ nodes[BoundOf(dependency)[1].dependency] = Node(2, TRUE, "scope")
    /\ nodes[BoundOf(dependency)[2].dependency] = Node(2, FALSE, "scope")
    /\ runs[1].value = {0, 1}
    /\ runs[2].value = {0, 2}
    /\ <<"call", 2>> \in DOMAIN stack[1].cache

\* the test's graph: root_dep in scope None over dep with use_cache=False,
\* then dep with use_cache=True, both in the outer scope
UncachedThenCached ==
    /\ pc = "solved"
    /\ nodes[dependency].call = 1
    /\ nodes[dependency].scope = "None"
    /\ Len(declared[dependency]) = 2
    /\ nodes[BoundOf(dependency)[1].dependency] = Node(2, FALSE, "scope")
    /\ nodes[BoundOf(dependency)[2].dependency] = Node(2, TRUE, "scope")

\* C4: on that graph the first execution yields {0, 1}, the uncached first
\* parameter receiving 0 and the cached second one 1, and a second
\* execution in another inner instance of the same outer instance yields
\* {2, 1}.
C4_UncachedThenCached ==
    UncachedThenCached =>
        LET v1 == root_task.positional_parameters[1]
            v2 == root_task.positional_parameters[2]
        IN  /\ Len(runs) >= 1 =>
                  /\ runs[1].value = {0, 1}
                  /\ runs[1].results[v1] = {0}
                  /\ runs[1].results[v2] = {1}
            /\ TwoInnerRuns =>
                  /\ runs[2].value = {2, 1}
                  /\ runs[2].results[v1] = {2}
                  /\ runs[2].results[v2] = {1}

\* C4's case: the two executions of the test are done.
C4_Witness ==
    /\ UncachedThenCached
    /\ TwoInnerRuns
    /\ nodes[dependency].use_cache
    /\ runs[2].value = {1, 2}

---------------------------------------------------------------------------
(* Bind substitution. *)

\* hook k returns a replacement for node d
Matches(k, d) == nodes[d].call = binds[k].match

\* the replacement of the first hook that returns one for d, or d
FirstMatch(d) ==
    LET M == {k \in 1..Len(binds) : Matches(k, d)}
    IN IF M = {} THEN d ELSE binds[Min(M)].provider

\* ch lists what the hooks, called in order, one after the other, leave of
\* d: every hook is handed what the hooks before it left
IsChain(ch, d) ==
    /\ ch[0] = d
    /\ \A k \in 1..Len(binds) :
           ch[k] = IF Matches(k, ch[k - 1]) THEN binds[k].provider
                   ELSE ch[k - 1]

\* the node the hooks leave of d
Chained(d) ==
    LET ch == CHOOSE c \in [0..Len(binds) -> 1..Len(nodes)] : IsChain(c, d)
    IN ch[Len(binds)]

\* the parameter edges (entry, index) of the parameter graph
GraphEdges ==
    UNION {{<<k, i>> : i \in 1..Len(param_graph[k].params)} :
              k \in 1..Len(param_graph)}

\* the dependency get_dependencies() declared for an edge of the graph
DeclaredDep(e) == declared[param_graph[e[1]].dep][e[2]].dependency

\* the dependency the parameter graph holds for it
GraphDep(e) == param_graph[e[1]].params[e[2]].dependency

\* C11 as stated: the root and every edge of the graph carry the
\* replacement of the first hook that returned one, and no later hook
\* changes it.
C11_Original ==
    /\ pc # "start" => dependency = FirstMatch(1)
    /\ \A e \in GraphEdges : GraphDep(e) = FirstMatch(DeclaredDep(e))

\* C11: the hooks are called in their fixed order, each on the node the
\* hooks before it left: the root and every edge of the graph carry the
\* replacement of the last hook of that chain that returned one, which is
\* the first hook's replacement only if no later hook matches it.
C11_ChainedBinds ==
    /\ pc # "start" => dependency = Chained(1)
    /\ \A e \in GraphEdges :
          /\ GraphDep(e) = Chained(DeclaredDep(e))
          /\ (\A k \in 1..Len(binds) : ~Matches(k, FirstMatch(DeclaredDep(e))))
                 => GraphDep(e) = FirstMatch(DeclaredDep(e))

\* C11's case: two hooks, the first replaces the declared dependency of an
\* edge and the second replaces the first one's replacement.
C11_Witness ==
    /\ Len(binds) = 2
    /\ \E e \in GraphEdges :
          /\ Matches(1, DeclaredDep(e))
          /\ Matches(2, binds[1].provider)
          /\ GraphDep(e) = binds[2].provider
          /\ GraphDep(e) # FirstMatch(DeclaredDep(e))

---------------------------------------------------------------------------
(* The two modes of execution. *)

\* the caches of a scope stack, outermost first
CachesOf(stk) == [i \in 1..Len(stk) |-> [scope |-> stk[i].scope,
                                         cache |-> stk[i].cache]]

RECURSIVE Sequential(_, _)
\* the walk of the task ids of `order`, one after the other, from the
\* results buffer and the scope stack of st, where dep() returns a fixed
\* value per node
Sequential(order, st) ==
    IF order = <<>> THEN st
    ELSE LET t == tasks[Head(order) + 1]
             f == CHOOSE i \in 1..Len(st.stack) : st.stack[i].scope = t.scope
             hit == t.use_cache /\ t.cache_key \in DOMAIN st.stack[f].cache
             args == {st.results[t.positional_parameters[i]] :
                         i \in 1..Len(t.positional_parameters)}
             v == IF hit THEN st.stack[f].cache[t.cache_key]
                  ELSE IF args = {} THEN {10 * t.dependant}
                  ELSE UNION args
         IN Sequential(Tail(order),
                [results |-> [st.results EXCEPT ![t.task_id] = v],
                 stack |-> IF t.use_cache /\ ~hit
                           THEN [st.stack EXCEPT ![f].cache =
                                    Put(@, t.cache_key, v)]
                           ELSE st.stack])

\* what walking the static order from the scope stack stk gives
Walk(stk) ==
    Sequential(static_order,
               [results |-> [i \in 0..(Len(tasks) - 1) |-> {}], stack |-> stk])

\* C12: with a fixed result per call, an execution in either mode that no
\* other execution overlaps returns the root value and leaves the scope
\* caches that walking the static order from its initial scope stack
\* gives, whatever order the executor ran the ready tasks in; so a
\* sequential and a concurrent execution from equal initial caches agree
\* on the root value and on the final caches.
C12_ModesAgree ==
    fam = "fixed" =>
        /\ \A j \in 1..Len(runs) :
               runs[j].alone =>
                   /\ runs[j].value =
                          Walk(runs[j].stack0).results[root_task.task_id]
                   /\ CachesOf(runs[j].stack1)
                          = CachesOf(Walk(runs[j].stack0).stack)
        /\ \A i, j \in 1..Len(runs) :
               (/\ runs[i].alone
                /\ runs[j].alone
                /\ runs[i].mode = "sync"
                /\ runs[j].mode = "concurrent"
                /\ CachesOf(runs[i].stack0) = CachesOf(runs[j].stack0))
               => /\ runs[i].value = runs[j].value
                  /\ CachesOf(runs[i].stack1) = CachesOf(runs[j].stack1)

\* C12's case: a sequential and a concurrent execution of a root over two
\* tasks from equal initial caches, the concurrent one having run the
\* two tasks in the other order than the static order, and storing a value.
C12_Witness ==
    /\ fam = "fixed"
    /\ Len(runs) = 2
    /\ Len(tasks) = 3
    /\ runs[1].mode = "sync"
    /\ runs[2].mode = "concurrent"
    /\ runs[2].alone
    /\ runs[2].ran # static_order
    /\ CachesOf(runs[1].stack0) = CachesOf(runs[2].stack0)
    /\ CachesOf(runs[2].stack1) # CachesOf(runs[2].stack0)

\* C12's other case: a concurrent execution that starts from caches a
\* sequential one has filled, and reads a value from them.
C12_CachedCase ==
    /\ fam = "fixed"
    /\ Len(runs) = 2
    /\ runs[1].mode = "sync"
    /\ runs[2].mode = "concurrent"
    /\ runs[2].ran # static_order
    /\ runs[2].invoked # {tasks[i].task_id : i \in 1..Len(tasks)}
    /\ \E i \in 1..Len(runs[2].stack0) : runs[2].stack0[i].cache # <<>>

---------------------------------------------------------------------------
(* Executions under way at once. *)

\* the executions finished and under way: where they ran, what they
\* invoked and the results they hold
Executions ==
    {[inst |-> [s \in ScopeNames |-> InstOf(runs[j], s)],
      invoked |-> runs[j].invoked,
      results |-> runs[j].results,
      seen |-> {tasks[i].task_id : i \in 1..Len(tasks)},
      id |-> j] : j \in 1..Len(runs)}
    \cup
    {[inst |-> [s \in ScopeNames |->
                   IF s \in OpenScopes THEN stack[FrameOf(s)].inst ELSE 0],
      invoked |-> cx[k].invoked,
      results |-> cx[k].results,
      seen |-> Range(cx[k].ran),
      id |-> Len(runs) + k] : k \in 1..Len(cx)}

DependencyTasks(t) ==
    UNION {{task_of(tasks, cache_key(GraphDep(e))).task_id}
              : e \in {x \in GraphEdges :
                          /\ param_graph[x[1]].dep = t.dependant
                          /\ Computable(GraphDep(x))}}

\* C14 (state part): in a concurrent execution a dispatched task has the
\* results of all its predecessors recorded, no task is dispatched twice,
\* and an execution with nothing dispatched and not run has run every task.
C14_Dispatch ==
    /\ \A k \in 1..Len(cx) :
          /\ \A i, j \in 1..Len(cx[k].dispatched) :
                 cx[k].dispatched[i] = cx[k].dispatched[j] => i = j
          /\ cx[k].ready = Range(cx[k].dispatched) \ Range(cx[k].ran)
          /\ \A t \in TaskSet :
                 t.task_id \in Range(cx[k].dispatched) =>
                     /\ SorterPreds(t.task_id) \cup DependencyTasks(t)
                            \subseteq Range(cx[k].ran)
                     /\ \A d \in SorterPreds(t.task_id) \cup DependencyTasks(t) :
                            cx[k].results[d] # {}
          /\ cx[k].ready = {} =>
                 Range(cx[k].ran) = {t.task_id : t \in TaskSet}
    /\ \A j \in 1..Len(runs) :
          /\ Len(runs[j].ran) = Len(tasks)
          /\ Range(runs[j].ran) = {t.task_id : t \in TaskSet}

RECURSIVE Pending(_)
\* the steps the concurrent executions es have left: one per task not yet
\* run, and the return
Pending(es) ==
    IF es = <<>> THEN 0
    ELSE (Len(tasks) + 1 - Len(Head(es).ran)) + Pending(Tail(es))

\* C14: under every schedule of the executor a task is dispatched only
\* after all its predecessors, with or without parameter, have a recorded
\* result, and it is dispatched once; a concurrent execution that has not
\* run every task has a dispatched task to run, and every step of the
\* executor brings the executions under way closer to their return, so
\* every task is dispatched in the end.
C14_DispatchAfterPredecessors ==
    /\ [] C14_Dispatch
    /\ [] (\A k \in 1..Len(cx) :
              /\ Len(cx[k].ran) <= Len(tasks)
              /\ Len(cx[k].ran) < Len(tasks) => cx[k].ready # {})
    /\ [][cx' # cx => (Len(cx') > Len(cx) \/ Pending(cx') < Pending(cx))]_vars

\* C14's case: a concurrent execution has dispatched a root that waited
\* for a dependency without parameter and for one with a parameter, which
\* the executor ran in the other order than the static order.
C14_Witness ==
    /\ Len(cx) = 1
    /\ Len(tasks) = 3
    /\ root_task.task_id \in cx[1].ready
    /\ Len(root_task.positional_parameters) = 1
    /\ Cardinality(SorterPreds(root_task.task_id)) = 2
    /\ cx[1].ran # SubSeq(static_order, 1, 2)

---------------------------------------------------------------------------
(* The plan is read-only. *)

\* the state the plan is compiled from: root_task, the tasks' references,
\* prepared and empty_results are functions of these variables alone
Plan == <<nodes, dependency, param_graph, tasks, ts, static_order>>

\* a results buffer with one empty slot per task
FreshBuffer(r) ==
    /\ DOMAIN r = 0..(Len(tasks) - 1)
    /\ \A i \in DOMAIN r : r[i] = {}

\* C15 (state part): an execution that has run no task yet, whatever ran
\* before it, holds a buffer of one empty slot per task and, in concurrent
\* mode, the predecessor counts and the first ready set of the sorter as
\* compiled.
C15_StartsFromCompiledState ==
    /\ (ex.active /\ ex.pos = 1) => FreshBuffer(ex.results)
    /\ \A k \in 1..Len(cx) :
          cx[k].ran = <<>> =>
              /\ FreshBuffer(cx[k].results)
              /\ DOMAIN cx[k].npred = {t.task_id : t \in TaskSet}
              /\ \A j \in 1..Len(ts) :
                     cx[k].npred[ts[j].node] = Len(ts[j].preds)
              /\ cx[k].ready = {t.task_id : t \in
                                   {u \in TaskSet : SorterPreds(u.task_id) = {}}}

---------------------------------------------------------------------------
(* The arguments of a compiled task. *)

\* the task compiled for the cache key of node n
IdOf(n) == tasks[CHOOSE i \in 1..Len(tasks) :
                    tasks[i].cache_key = cache_key(n)].task_id

\* the edges of a task's node, binds applied, whose dependency has a call
\* and whose parameter is of one of the kinds K, in edge order
EdgesOfKind(t, K) ==
    SelectSeq(BoundOf(t.dependant),
              LAMBDA p : Computable(p.dependency) /\ p.parameter \in K)

\* their tasks, in edge order
ArgTasks(t, K) ==
    [j \in 1..Len(EdgesOfKind(t, K)) |-> IdOf(EdgesOfKind(t, K)[j].dependency)]

\* their tasks under the parameter names
ArgNames(t, K) ==
    {<<EdgesOfKind(t, K)[j].name, IdOf(EdgesOfKind(t, K)[j].dependency)>> :
        j \in 1..Len(EdgesOfKind(t, K))}

\* the keyword mapping of t holds exactly the pairs of M, each name once
KeywordIs(t, M) ==
    /\ Range(t.keyword_parameters) = M
    /\ Len(t.keyword_parameters) = Cardinality(M)
    /\ \A a, b \in M : a[1] = b[1] => a = b

\* C16 as stated: every computable edge of a compiled task is in its
\* positional sequence, in edge order, when its parameter is positional or
\* absent, and in its keyword mapping, under the parameter name, when its
\* parameter is keyword-only.
C16_Original ==
    \A i \in 1..Len(tasks) :
        /\ tasks[i].positional_parameters
               = ArgTasks(tasks[i], {"none", "pos", "posdef"})
        /\ KeywordIs(tasks[i], ArgNames(tasks[i], {"kw", "kwdef"}))

\* C16: of the computable edges of a compiled task, those whose parameter
\* is positional are in its positional sequence, in edge order, those
\* whose parameter is keyword-only are in its keyword mapping under the
\* parameter name, and those without a parameter are in neither: they are
\* predecessors of the task in the sorter, as every computable edge is,
\* and nothing more.
C16_ArgumentStructures ==
    \A i \in 1..Len(tasks) :
        /\ tasks[i].positional_parameters
               = ArgTasks(tasks[i], {"pos", "posdef"})
        /\ KeywordIs(tasks[i], ArgNames(tasks[i], {"kw", "kwdef"}))
        /\ \E j \in 1..Len(ts) :
               /\ ts[j].node = tasks[i].task_id
               /\ ts[j].preds = ArgTasks(tasks[i], ParamKinds)

\* C16's case: a plan whose root has an edge without parameter and a
\* keyword-only edge on two tasks, the first of which takes the second as
\* a positional argument.
C16_Witness ==
    /\ pc = "solved"
    /\ Len(tasks) = 3
    /\ Len(declared[dependency]) = 2
    /\ declared[dependency][1].parameter = "none"
    /\ declared[dependency][2].parameter = "kw"
    /\ root_task.positional_parameters = <<>>
    /\ Len(root_task.keyword_parameters) = 1
    /\ \E i \in 1..Len(tasks) :
          /\ Len(tasks[i].positional_parameters) = 1
          /\ tasks[i].positional_parameters[1]
                = root_task.keyword_parameters[1][2]

---------------------------------------------------------------------------
(* The path of the cycle error. *)

\* an element of a reported path stands for node n: the node itself or its
\* cache key
Denotes(x, n) == x = <<"node", n>> \/ x = cache_key(n)

\* consecutive elements of P are joined by a link of the parent map
FollowsParents(P) ==
    \A i \in 1..(Len(P) - 1) :
        \E a \in 1..Len(nodes) : \E b \in DOMAIN parents :
            /\ Denotes(P[i], a)
            /\ Denotes(P[i + 1], b)
            /\ parents[b] = a

\* C17 as stated: the path of a cycle error starts at the root, follows
\* parent-map links and ends at a node inside the cycle.
C17_Original ==
    err = "Cycle" =>
        LET P == get_path_of_key(errKey)
        IN  /\ Denotes(P[1], dependency)
            /\ FollowsParents(P)
            /\ \E n \in 1..Len(nodes) :
                   Denotes(Last(P), n) /\ cache_key(n) \in CycleMembers

---------------------------------------------------------------------------
(* Nodes without a call. *)

\* the reachable nodes without a call
Markers == {n \in Reach : ~Computable(n)}

TaskIds == {tasks[i].task_id : i \in 1..Len(tasks)}

\* the entries of the parameter graph made for node n
EntriesOf(n) == {k \in 1..Len(param_graph) : param_graph[k].dep = n}

\* the worklist loop ran to its end without raising
Traversed == pc \in {"build", "validate", "solved"}

\* C18 (first half): no task is compiled for a node without call, and the
\* dependency references and sorter predecessors of every task are tasks.
C18_NeverATask ==
    /\ \A i \in 1..Len(tasks) :
          /\ tasks[i].call # NoCall
          /\ Computable(tasks[i].dependant)
          /\ TaskRefs(tasks[i]) \cup SorterPreds(tasks[i].task_id) \subseteq TaskIds
    /\ \A n \in 1..Len(nodes) :
          ~Computable(n) => TasksOfKey(cache_key(n)) = {}
    /\ \A j \in 1..Len(ts) : ts[j].node \in TaskIds

\* C18 (second half): when the traversal has ended without error, every
\* reachable node without call was expanded: its declared parameters are
\* in the parameter graph with the binds applied, none of them is a wiring
\* defect, each of its dependencies was discovered under a cache key whose
\* holder has the dependency's scope, and in a returned plan each of its
\* dependencies that has a call has its task.
C18_StillExpanded ==
    Traversed =>
        \A n \in Markers :
            /\ n \in DOMAIN declared
            /\ Cardinality(EntriesOf(n)) = 1
            /\ \A k \in EntriesOf(n) :
                   /\ Len(param_graph[k].params) = Len(declared[n])
                   /\ \A i \in 1..Len(declared[n]) :
                          LET m == param_graph[k].params[i].dependency
                          IN  /\ m = Chained(declared[n][i].dependency)
                              /\ <<n, i>> \notin WiringDefects
                              /\ m \in seen
                              /\ cache_key(m) \in DOMAIN dependants
                              /\ nodes[dependants[cache_key(m)]].scope
                                     = nodes[m].scope
                              /\ (pc = "solved" /\ Computable(m)) =>
                                     Cardinality(TasksOfKey(cache_key(m))) = 1

\* C18: a reachable node without call never becomes a task, a dependency
\* reference or a sorter predecessor, yet the traversal expands it: bind
\* substitution, the wiring check and the scope-conflict check apply to
\* its own parameter edges and its computable dependencies are discovered
\* and compiled.
C18_MarkerExcludedButExpanded == C18_NeverATask /\ C18_StillExpanded

\* C18's case: a returned plan whose root has a defaulted parameter on a
\* node without call; that node's own parameter was replaced by a bind,
\* the provider has a task, and the root task refers to no task.
C18_Witness ==
    /\ pc = "solved"
    /\ Len(binds) = 1
    /\ \E n \in Markers :
          /\ parents[n] = dependency
          /\ Len(declared[n]) = 1
          /\ Chained(declared[n][1].dependency) = binds[1].provider
          /\ declared[n][1].dependency # binds[1].provider
          /\ TasksOfKey(cache_key(binds[1].provider)) # {}
    /\ Len(tasks) = 2
    /\ TaskRefs(root_task) \cup SorterPreds(root_task.task_id) = {}

\* the wiring check on an edge of a node without call: solve fails with
\* the wiring error at that node
C18_WiringCase ==
    /\ pc = "failed"
    /\ err = "Wiring"
    /\ errDep # dependency
    /\ ~Computable(errDep)
    /\ <<errDep, errParam>> \in WiringDefects

\* the scope-conflict check on an edge of a node without call: solve fails
\* with the scope-conflict error at a dependency of that node
C18_ScopeCase ==
    /\ pc = "failed"
    /\ err = "Solving"
    /\ errDep \in DOMAIN parents
    /\ ~Computable(parents[errDep])
    /\ cache_key(errDep) = cache_key(dependency)

---------------------------------------------------------------------------
(* What the traversal follows is what the hooks returned. *)

\* the nodes the hooks left: the root after binds and the dependency of
\* every edge of the parameter graph
Substituted == {dependency} \cup {GraphDep(e) : e \in GraphEdges}

\* the nodes the traversal or the compilation has touched
Touched ==
    Range(q) \cup seen \cup DOMAIN declared \cup DOMAIN parents
        \cup {dependants[k] : k \in DOMAIN dependants}
        \cup {param_graph[k].dep : k \in 1..Len(param_graph)}
        \cup {tasks[i].dependant : i \in 1..Len(tasks)}

\* C19 (state part): once the root is bound, every node enqueued, popped,
\* expanded or compiled is the root after binds or what one pass of the
\* hooks left of the declared dependency of an edge, for the edges of
\* providers as for any other; a node the hooks replaced on every edge
\* that declares it is touched nowhere; and when the traversal has ended
\* every node the hooks left was popped, holds or shares a cache key, and
\* in a returned plan has its task if it has a call.
C19_Followed ==
    /\ pc # "start" => Touched \subseteq Substituted
    /\ \A e \in GraphEdges :
          /\ GraphDep(e) = Chained(DeclaredDep(e))
          /\ DeclaredDep(e) \notin Substituted => DeclaredDep(e) \notin Touched
    /\ Traversed =>
          \A n \in Substituted :
              /\ n \in seen
              /\ cache_key(n) \in DOMAIN dependants
              /\ (pc = "solved" /\ Computable(n)) =>
                     Cardinality(TasksOfKey(cache_key(n))) = 1

\* a step expands a node: the hooks are called on its parameters
Expands(n) ==
    /\ Len(param_graph') = Len(param_graph) + 1
    /\ Last(param_graph').dep = n

\* C19: the traversal and the compilation follow the post-substitution
\* node of every edge and never the node it replaced, and the hooks run
\* over the parameters of a node once: a node is expanded at most once,
\* what an expansion put in the parameter graph is never changed, and it
\* is one pass of the hooks over the declared dependency.
C19_PostSubstitutionNode ==
    /\ [] C19_Followed
    /\ [][/\ \A n \in DOMAIN declared : ~Expands(n)
          /\ SubSeq(param_graph', 1, Len(param_graph)) = param_graph
          /\ \A n \in DOMAIN declared :
                 n \in DOMAIN declared' /\ declared'[n] = declared[n]]_vars

\* C19's case: a returned plan in which a provider, put in by a bind on
\* one edge, was expanded in its turn and its own parameter was replaced
\* by a bind as well; neither of the two replaced nodes was touched.
C19_Witness ==
    /\ pc = "solved"
    /\ \E e1, e2 \in GraphEdges :
          /\ DeclaredDep(e1) # GraphDep(e1)
          /\ param_graph[e2[1]].dep = GraphDep(e1)
          /\ DeclaredDep(e2) # GraphDep(e2)
          /\ GraphDep(e2) # GraphDep(e1)
          /\ {DeclaredDep(e1), DeclaredDep(e2)} \cap Touched = {}

---------------------------------------------------------------------------
(* Task ids and the results buffer. *)

\* C20: in a returned plan of n tasks the task ids are the n numbers
\* 0..n-1, no two tasks share one, the results buffer has n slots so that
\* every task id is an index of it, and the id of a task a task depends
\* on, directly or through other tasks, is smaller than its own.
C20_TaskIds ==
    pc = "solved" =>
        LET n == Len(tasks)
        IN  /\ n >= 1
            /\ TaskIds = 0..(n - 1)
            /\ \A i, j \in 1..n :
                   tasks[i].task_id = tasks[j].task_id => i = j
            /\ DOMAIN empty_results = 0..(n - 1)
            /\ Cardinality(DOMAIN empty_results) = n
            /\ TaskIds \subseteq DOMAIN empty_results
            /\ \A e \in Closure(TaskEdges) : e[2] < e[1]
            /\ \A i \in 1..n :
                   \A d \in TaskRefs(tasks[i]) \cup SorterPreds(tasks[i].task_id) :
                       d < tasks[i].task_id

\* C20's case: a returned plan of three tasks in a chain, the root's
\* dependency depending on a third task.
C20_Witness ==
    /\ pc = "solved"
    /\ Len(tasks) = 3
    /\ root_task.task_id = 2
    /\ SorterPreds(2) = {1}
    /\ SorterPreds(1) = {0}
    /\ <<2, 0>> \in Closure(TaskEdges)

====
